---- MODULE Spec2Model ----
(***************************************************************************)
(* Adaptive Error Recovery Compiler: the mock backend's detection checks   *)
(* (/compile and /fix handlers), its fix synthesizer (generateFixes) and   *)
(* the front end's edit applier (applyFix).                                *)
(*                                                                         *)
(* A source text is a sequence of lexical units.  The two words the        *)
(* regular expressions look for, printf and the directive                  *)
(* #include <stdio.h>, are one unit each; every other unit is one          *)
(* character ("(", ")", ";", "{", "}", blank, "\n", "\r", "\f") or an      *)
(* opaque word that no regular expression of the program distinguishes.    *)
(***************************************************************************)
EXTENDS Integers, Sequences, FiniteSets, TLC

VARIABLES code, errors, fixes, pc, prevCode, prevErrors, lastEdit, lastFrom,
          status,
          result, uiFixes, isCompiling, error, isResetting, backendUrl,
          calls, fixesFor

\* the state of the App component besides code: result, fixes (uiFixes),
\* isCompiling, error, isResetting; VITE_BACKEND_URL being set; the
\* handleCompile invocations that have not returned, each with the code its
\* closure holds; the code the current uiFixes were computed from
appVars == <<result, uiFixes, isCompiling, error, isResetting, backendUrl,
             calls, fixesFor>>

vars == <<code, errors, fixes, pc, prevCode, prevErrors, lastEdit, lastFrom,
          status, appVars>>

(***************************************************************************)
(* Bounds of the model.                                                    *)
(***************************************************************************)
\* longest source (in lexical units) the detect / fix / apply loop starts from
MaxLen == 4
\* longest source handed to suggest_fixes with a diagnostics list of the caller
MaxSynthLen == 3
\* longest diagnostics list of the caller
MaxDiags == 2
\* longest buffer handed to the edit applier with an edit of the caller
MaxBufLen == 3
\* largest line number of such an edit
MaxEditLine == 4
\* most handleCompile invocations the model lets run at the same time
MaxCalls == 2

(***************************************************************************)
(* Lexical units.                                                          *)
(***************************************************************************)
PRINTF == "printf"
INCLUDE == "#include <stdio.h>"

Alphabet == {PRINTF, INCLUDE, "(", ")", ";", "{", "}", " ", "\n", "\r"}

\* \s of the regular expressions
IsSpace(c) == c \in {" ", "\t", "\n", "\r", "\f"}
\* [ \t]
IsBlank(c) == c \in {" ", "\t"}
\* the line terminators: what . does not match, and where ^ and $ match
\* under the m flag
IsLineTerminator(c) == c \in {"\n", "\r"}

Min(a, b) == IF a < b THEN a ELSE b
Max(a, b) == IF a > b THEN a ELSE b
SetMax(S) == CHOOSE x \in S : \A y \in S : y <= x
SetMin(S) == CHOOSE x \in S : \A y \in S : x <= y

\* the `line` property of a diagnostic that has none
NoLine == 0
\* a property an edit object does not have
Undefined == <<"undefined">>

(***************************************************************************)
(* Text helpers.                                                           *)
(***************************************************************************)
RECURSIVE splitAcc(_, _)
splitAcc(s, cur) ==
    IF s = <<>> THEN <<cur>>
    ELSE IF Head(s) = "\n" THEN <<cur>> \o splitAcc(Tail(s), <<>>)
    ELSE IF Head(s) = "\r" /\ Len(s) >= 2 /\ s[2] = "\n"
         THEN <<cur>> \o splitAcc(Tail(Tail(s)), <<>>)
    ELSE splitAcc(Tail(s), Append(cur, Head(s)))

\* text.split(/\r?\n/)
Split(s) == splitAcc(s, <<>>)

RECURSIVE Join(_)
\* lines.join('\n')
Join(ls) ==
    IF ls = <<>> THEN <<>>
    ELSE IF Len(ls) = 1 THEN ls[1]
    ELSE ls[1] \o <<"\n">> \o Join(Tail(ls))

\* (text.match(/c/g) || []).length
Count(s, c) == Cardinality({i \in 1..Len(s) : s[i] = c})

\* printf\s*\([^;]*\) matched in s with printf at p and the closing ")" at q
PrintfCallAt(s, p, q) ==
    /\ p \in 1..Len(s) /\ q \in 1..Len(s)
    /\ s[p] = PRINTF
    /\ \E j \in (p+1)..(q-1) :
          /\ s[j] = "("
          /\ \A k \in (p+1)..(j-1) : IsSpace(s[k])
          /\ \A k \in (j+1)..(q-1) : s[k] # ";"
    /\ s[q] = ")"

\* /printf\s*\(/.test(text)
hasPrintf(s) ==
    \E p \in 1..Len(s), j \in 1..Len(s) :
        /\ p < j /\ s[p] = PRINTF /\ s[j] = "("
        /\ \A k \in (p+1)..(j-1) : IsSpace(s[k])

\* /#\s*include\s*<stdio.h>/.test(text)
hasStdio(s) == \E i \in 1..Len(s) : s[i] = INCLUDE

\* /;;/.test(line)
HasDoubleSemi(s) == \E i \in 1..(Len(s)-1) : s[i] = ";" /\ s[i+1] = ";"

\* variant: line.replace(/;;/, ''), the pair is dropped whole
ReplaceFirstDoubleSemi_DropsPair(s) ==
    IF ~HasDoubleSemi(s) THEN s
    ELSE LET i == SetMin({k \in 1..(Len(s)-1) : s[k] = ";" /\ s[k+1] = ";"})
         IN SubSeq(s, 1, i-1) \o SubSeq(s, i+2, Len(s))

\* line.replace(/;;/, ';'): the first pair only
ReplaceFirstDoubleSemi(s) ==
    IF ~HasDoubleSemi(s) THEN s
    ELSE LET i == SetMin({k \in 1..(Len(s)-1) : s[k] = ";" /\ s[k+1] = ";"})
         IN SubSeq(s, 1, i) \o SubSeq(s, i+2, Len(s))

\* /;\s*$/.test(text)
EndsWithSemicolon(s) ==
    \E i \in 1..Len(s) : s[i] = ";" /\ \A k \in (i+1)..Len(s) : IsSpace(s[k])

\* /printf\s*\([^;]*\)\s*$/.test(line)
LinePrintfNoSemi(s) ==
    \E p \in 1..Len(s), q \in 1..Len(s) :
        PrintfCallAt(s, p, q) /\ \A k \in (q+1)..Len(s) : IsSpace(s[k])

\* /(^.*printf\s*\([^;]*\)[ \t]*$)/m.  A match that has printf at p starts
\* at the start of p's line (^ under the m flag, . matches no line
\* terminator); a match that closes at q ends after the blanks following q,
\* where $ must find a line terminator or the end of the text.
LineStart(s, p) ==
    SetMax({b \in 1..p : b = 1 \/ IsLineTerminator(s[b-1])})

BlankEnd(s, q) ==
    SetMax({e \in q..Len(s) : \A k \in (q+1)..e : IsBlank(s[k])})

MultilineMatch(s, p, q) ==
    /\ PrintfCallAt(s, p, q)
    /\ LET e == BlankEnd(s, q)
       IN e = Len(s) \/ IsLineTerminator(s[e+1])

MatchPrintfs(s) ==
    {p \in 1..Len(s) : s[p] = PRINTF /\ \E q \in (p+2)..Len(s) : MultilineMatch(s, p, q)}

\* code.match(/(^.*printf\s*\([^;]*\)[ \t]*$)/m): the matched text ([1]),
\* leftmost start, greedy quantifiers; Undefined when there is no match
printfLineMatch(s) ==
    IF MatchPrintfs(s) = {} THEN Undefined
    ELSE LET b == LineStart(s, SetMin(MatchPrintfs(s)))
             p == SetMax({x \in MatchPrintfs(s) : LineStart(s, x) = b})
             q == SetMax({x \in (p+2)..Len(s) : MultilineMatch(s, p, x)})
         IN SubSeq(s, b, BlankEnd(s, q))

(***************************************************************************)
(* Detector: the checks of the /compile handler.                           *)
(***************************************************************************)
Diag(t, m, l) == [type |-> t, message |-> m, line |-> l]

MsgInclude == "printf may be undeclared (missing #include <stdio.h>)"
MsgMissingSemi == "Missing semicolon after statement"
MsgExtraSemi == "Extra semicolon detected"
MsgBraces == "Unmatched braces"

DiagInclude == Diag("ReferenceError", MsgInclude, NoLine)
DiagMissingSemi == Diag("SyntaxError", MsgMissingSemi, NoLine)
DiagExtraSemi(l) == Diag("SyntaxWarning", MsgExtraSemi, l)
DiagBraces == Diag("SyntaxError", MsgBraces, NoLine)

\* variant: the test for the include directive is not negated
MissingIncludeCheck_NotNegated(c) ==
    IF hasPrintf(c) /\ hasStdio(c) THEN <<DiagInclude>> ELSE <<>>

MissingIncludeCheck(c) ==
    IF hasPrintf(c) /\ ~hasStdio(c) THEN <<DiagInclude>> ELSE <<>>

MissingSemicolonCheck(c) ==
    LET lineText == printfLineMatch(c)
    IN IF lineText # Undefined /\ ~EndsWithSemicolon(lineText)
       THEN <<DiagMissingSemi>> ELSE <<>>

RECURSIVE extraSemiFrom(_, _)
extraSemiFrom(lines, i) ==
    IF i > Len(lines) THEN <<>>
    ELSE (IF HasDoubleSemi(lines[i]) THEN <<DiagExtraSemi(i)>> ELSE <<>>)
         \o extraSemiFrom(lines, i + 1)

ExtraSemicolonCheck(c) == extraSemiFrom(Split(c), 1)

\* variant: only a surplus of "{" is reported
BraceCheck_OpensOnly(c) ==
    LET openBraces == Count(c, "{")
        closeBraces == Count(c, "}")
    IN IF openBraces > closeBraces THEN <<DiagBraces>> ELSE <<>>

BraceCheck(c) ==
    LET openBraces == Count(c, "{")
        closeBraces == Count(c, "}")
    IN IF openBraces # closeBraces THEN <<DiagBraces>> ELSE <<>>

\* the errors array of the /compile handler
compileErrors(c) ==
    MissingIncludeCheck(c) \o MissingSemicolonCheck(c)
        \o ExtraSemicolonCheck(c) \o BraceCheck(c)

\* variant: the two branches of the response are swapped
compileStatus_Inverted(errs) ==
    IF Len(errs) = 0 THEN "error" ELSE "success"

\* the status field of the /compile response
compileStatus(errs) ==
    IF Len(errs) = 0 THEN "success" ELSE "error"

(***************************************************************************)
(* The checks of the /fix handler ("run same heuristics used for           *)
(* /compile"), written out a second time in the source.                    *)
(***************************************************************************)
FixMissingIncludeCheck(c) ==
    IF hasPrintf(c) /\ ~hasStdio(c) THEN <<DiagInclude>> ELSE <<>>

FixMissingSemicolonCheck(c) ==
    LET lineText == printfLineMatch(c)
    IN IF lineText # Undefined /\ ~EndsWithSemicolon(lineText)
       THEN <<DiagMissingSemi>> ELSE <<>>

FixExtraSemicolonCheck(c) == extraSemiFrom(Split(c), 1)

\* variant: the /fix handler reports only a surplus of "{"
FixBraceCheck_OpensOnly(c) ==
    LET openBraces == Count(c, "{")
        closeBraces == Count(c, "}")
    IN IF openBraces > closeBraces THEN <<DiagBraces>> ELSE <<>>

FixBraceCheck(c) ==
    LET openBraces == Count(c, "{")
        closeBraces == Count(c, "}")
    IN IF openBraces # closeBraces THEN <<DiagBraces>> ELSE <<>>

\* the errors array of the /fix handler
fixErrors(c) ==
    FixMissingIncludeCheck(c) \o FixMissingSemicolonCheck(c)
        \o FixExtraSemicolonCheck(c) \o FixBraceCheck(c)

(***************************************************************************)
(* FixSynthesizer: generateFixes(code, errors).                            *)
(***************************************************************************)
InsertEdit(l, c) ==
    [type |-> "insert", line |-> l, content |-> c,
     original |-> Undefined, replacement |-> Undefined]

ReplaceEdit(l, o, r) ==
    [type |-> "replace", line |-> l, content |-> Undefined,
     original |-> o, replacement |-> r]

\* confidence is kept in hundredths
Fix(d, conf, e) == [description |-> d, confidence |-> conf, edit |-> e]

DescInclude == "Add #include <stdio.h> at the top to declare printf"
DescMissingSemi == "Add missing semicolon to end of statement"
DescAddBrace == "Add missing closing brace at end of file"
DescRemoveBrace == "Remove an extra closing brace"
DescExtraSemi == "Remove extra semicolon"

\* The regular expressions generateFixes runs on e.message, evaluated on the
\* four messages the detector produces.
\* /stdio/i
MatchesStdio(m) == m = MsgInclude
\* /semicolon/i: "Missing semicolon after statement" and
\* "Extra semicolon detected" both contain the word
MatchesSemicolon(m) == m \in {MsgMissingSemi, MsgExtraSemi}
\* /brace/i
MatchesBrace(m) == m = MsgBraces
\* /extra semicolon|duplicate/i
MatchesExtraSemicolon(m) == m = MsgExtraSemi

\* errors.some(e => re.test(e.message)), for each of the four expressions
SomeStdio(errs) == \E i \in 1..Len(errs) : MatchesStdio(errs[i].message)
SomeSemicolon(errs) == \E i \in 1..Len(errs) : MatchesSemicolon(errs[i].message)
SomeBrace(errs) == \E i \in 1..Len(errs) : MatchesBrace(errs[i].message)
SomeExtraSemicolon(errs) ==
    \E i \in 1..Len(errs) : MatchesExtraSemicolon(errs[i].message)

IncludeFix(c, errs) ==
    IF SomeStdio(errs)
    THEN <<Fix(DescInclude, 90, InsertEdit(1, <<INCLUDE, "\n">>))>>
    ELSE <<>>

\* variant: the edit carries the 0-based index i instead of i + 1
SemicolonFix_ZeroBased(c, errs) ==
    LET lines == Split(c)
        hits == {i \in 1..Len(lines) : LinePrintfNoSemi(lines[i])}
    IN IF SomeSemicolon(errs) /\ hits # {}
       THEN LET i == SetMin(hits)
            IN <<Fix(DescMissingSemi, 95,
                     ReplaceEdit(i - 1, lines[i], Append(lines[i], ";")))>>
       ELSE <<>>

SemicolonFix(c, errs) ==
    LET lines == Split(c)
        hits == {i \in 1..Len(lines) : LinePrintfNoSemi(lines[i])}
    IN IF SomeSemicolon(errs) /\ hits # {}
       THEN LET i == SetMin(hits)
            IN <<Fix(DescMissingSemi, 95,
                     ReplaceEdit(i, lines[i], Append(lines[i], ";")))>>
       ELSE <<>>

\* variant: the content lacks the brace
AddBraceFix_NoBrace(c) ==
    <<Fix(DescAddBrace, 85, InsertEdit(Len(Split(c)) + 1, <<"\n">>))>>

AddBraceFix(c) ==
    <<Fix(DescAddBrace, 85, InsertEdit(Len(Split(c)) + 1, <<"\n", "}">>))>>

RemoveBraceFix(c) ==
    LET lines == Split(c)
        hits == {i \in 1..Len(lines) : Count(lines[i], "}") > 0}
    IN IF hits # {}
       THEN LET i == SetMax(hits)
            IN <<Fix(DescRemoveBrace, 60, ReplaceEdit(i, lines[i], <<>>))>>
       ELSE <<>>

BraceFix(c, errs) ==
    LET open == Count(c, "{")
        close == Count(c, "}")
    IN IF ~SomeBrace(errs) THEN <<>>
       ELSE IF open > close THEN AddBraceFix(c)
       ELSE IF close > open THEN RemoveBraceFix(c)
       ELSE <<>>

ExtraSemicolonFix(c, errs) ==
    LET lines == Split(c)
        hits == {i \in 1..Len(lines) : HasDoubleSemi(lines[i])}
    IN IF SomeExtraSemicolon(errs) /\ hits # {}
       THEN LET i == SetMin(hits)
            IN <<Fix(DescExtraSemi, 90,
                     ReplaceEdit(i, lines[i], ReplaceFirstDoubleSemi(lines[i])))>>
       ELSE <<>>

generateFixes(c, errs) ==
    IncludeFix(c, errs) \o SemicolonFix(c, errs)
        \o BraceFix(c, errs) \o ExtraSemicolonFix(c, errs)

\* the fixes field of the /compile response
compileFixes(c, errs) ==
    IF Len(errs) = 0 THEN <<>> ELSE generateFixes(c, errs)

(***************************************************************************)
(* EditApplier: applyFix of the App component, as a function of the        *)
(* current code and the edit.                                              *)
(***************************************************************************)
\* variant: the line number is taken as a 0-based index
lineIndexOf_ZeroBased(lines, edit) ==
    Max(0, Min(Len(lines), IF edit.line = 0 THEN 1 ELSE edit.line))

\* Math.max(0, Math.min(lines.length, (edit.line || 1) - 1)): a 0-based index
lineIndexOf(lines, edit) ==
    Max(0, Min(Len(lines), (IF edit.line = 0 THEN 1 ELSE edit.line) - 1))

\* edit.content || ''
ContentOrEmpty(edit) ==
    IF edit.content = Undefined THEN <<>> ELSE edit.content

\* lines.splice(lineIndex, 0, ...pieces)
Splice(lines, lineIndex, pieces) ==
    SubSeq(lines, 1, lineIndex) \o pieces \o SubSeq(lines, lineIndex + 1, Len(lines))

\* lines[lineIndex] = text; an index equal to lines.length extends the array
SetLine(lines, lineIndex, text) ==
    IF lineIndex < Len(lines)
    THEN [lines EXCEPT ![lineIndex + 1] = text]
    ELSE Append(lines, text)

\* the lines array of applyFix just before lines.join('\n')
editedLines(c, edit) ==
    LET lines == Split(c)
        lineIndex == lineIndexOf(lines, edit)
    IN IF edit.type = "insert"
       THEN Splice(lines, lineIndex, Split(ContentOrEmpty(edit)))
       ELSE IF edit.type = "replace"
       THEN SetLine(lines, lineIndex,
                    IF edit.replacement # Undefined THEN edit.replacement
                    ELSE ContentOrEmpty(edit))
       ELSE lines

\* newCode of applyFix
applyEdit(c, edit) == Join(editedLines(c, edit))

(***************************************************************************)
(* Inputs.                                                                 *)
(***************************************************************************)
BoundedSeq(S, n) == UNION {[1..k -> S] : k \in 0..n}

\* Scenario B of the specification: "int main() {\n  printf(\"hi\");\n"
ScenarioB ==
    <<"int", " ", "main", "(", ")", " ", "{", "\n",
      " ", " ", PRINTF, "(", "\"hi\"", ")", ";", "\n">>

\* defaultCode of the App component
defaultCode ==
    <<"int", " ", "main", "(", ")", " ", "{", "\n",
      " ", "int", " ", "x", " ", "=", " ", "10", ";", "\n",
      " ", PRINTF, "(", "\"Hello, World!\"", ")", ";", "\n",
      " ", "return", " ", "0", ";", "\n",
      "}">>

Sources == BoundedSeq(Alphabet, MaxLen) \cup {ScenarioB, defaultCode}

\* the diagnostics a caller may hand to suggest_fixes
DiagUniverse ==
    {DiagInclude, DiagMissingSemi, DiagBraces, DiagExtraSemi(1), DiagExtraSemi(2)}

DiagLists == BoundedSeq(DiagUniverse, MaxDiags)

\* the edits a caller may hand to the edit applier
EditLines == (-1)..MaxEditLine

EditContents == {<<>>, <<"}">>, <<"\n", "}">>, <<INCLUDE, "\n">>}

EditInputs ==
    {InsertEdit(l, c) : l \in EditLines, c \in EditContents \cup {Undefined}}
    \cup {ReplaceEdit(l, Undefined, r) : l \in EditLines, r \in {<<>>, <<"x">>}}
    \cup {[ReplaceEdit(l, Undefined, Undefined) EXCEPT !.content = <<"x">>] :
             l \in EditLines}

NoEdit == [type |-> "none", line |-> NoLine, content |-> Undefined,
           original |-> Undefined, replacement |-> Undefined]

NoFix == Fix("", 0, NoEdit)

(***************************************************************************)
(* State machine: a caller holding a buffer runs the operations.           *)
(*   pc = "idle"       the buffer has not been analysed since it changed    *)
(*   pc = "compiled"   errors, fixes are the answer of /compile             *)
(*   pc = "fixed"      errors, fixes are those computed by /fix             *)
(*   pc = "suggested"  fixes = generateFixes(code, errors), errors chosen   *)
(*                     by the caller                                        *)
(* prevCode, lastEdit, lastFrom remember the last edit applied, the buffer  *)
(* it was applied to and where the edit came from.                          *)
(***************************************************************************)
\* result === null
NullResult == [isNull |-> TRUE, status |-> "none", errors |-> <<>>, fixes |-> <<>>]

\* fixes === null
NullFixes == [isNull |-> TRUE, list |-> <<>>]

InitWith(S) ==
    /\ code \in S
    /\ errors = <<>>
    /\ fixes = <<>>
    /\ pc = "idle"
    /\ prevCode = code
    /\ prevErrors = <<>>
    /\ lastEdit = NoFix
    /\ lastFrom = "none"
    /\ status = "none"
    /\ result = NullResult
    /\ uiFixes = NullFixes
    /\ isCompiling = FALSE
    /\ error = "null"
    /\ isResetting = FALSE
    /\ backendUrl = TRUE
    /\ calls = <<>>
    /\ fixesFor = <<>>

Init == InitWith(Sources)

\* POST /compile
Compile ==
    /\ pc = "idle"
    /\ LET errs == compileErrors(code)
       IN /\ errors' = errs
          /\ fixes' = compileFixes(code, errs)
          /\ status' = compileStatus(errs)
    /\ pc' = "compiled"
    /\ UNCHANGED <<code, prevCode, prevErrors, lastEdit, lastFrom, appVars>>

\* POST /fix
FixRequest ==
    /\ pc = "idle"
    /\ LET errs == fixErrors(code)
       IN /\ errors' = errs
          /\ fixes' = generateFixes(code, errs)
    /\ pc' = "fixed"
    /\ status' = "none"
    /\ UNCHANGED <<code, prevCode, prevErrors, lastEdit, lastFrom, appVars>>

\* suggest_fixes(source, diagnostics) on a diagnostics list of the caller
SuggestFixes(d) ==
    /\ pc = "idle"
    /\ errors' = d
    /\ fixes' = generateFixes(code, d)
    /\ pc' = "suggested"
    /\ UNCHANGED <<code, prevCode, prevErrors, lastEdit, lastFrom, status, appVars>>

\* applyFix(fixes[i])
ApplyFix(i) ==
    /\ pc \in {"compiled", "fixed"}
    /\ i \in 1..Len(fixes)
    /\ code' = applyEdit(code, fixes[i].edit)
    /\ prevCode' = code
    /\ prevErrors' = errors
    /\ lastEdit' = fixes[i]
    /\ lastFrom' = pc
    /\ fixes' = <<>>
    /\ errors' = <<>>
    /\ pc' = "idle"
    /\ status' = "none"
    /\ UNCHANGED appVars

\* applyFix on an edit that did not come from generateFixes
ApplyEdit(e) ==
    /\ pc = "idle"
    /\ lastFrom = "none"
    /\ code' = applyEdit(code, e)
    /\ prevCode' = code
    /\ prevErrors' = errors
    /\ lastEdit' = Fix("", 0, e)
    /\ lastFrom' = "caller"
    /\ fixes' = <<>>
    /\ errors' = <<>>
    /\ pc' = "idle"
    /\ status' = "none"
    /\ UNCHANGED appVars

\* the detect / fix / apply loop driven by a caller
Next ==
    \/ Compile
    \/ FixRequest
    \/ \E i \in 1..4 : ApplyFix(i)

Spec == Init /\ [][Next]_vars

\* suggest_fixes as a function of any source and any diagnostics list
SynthNext == \E d \in DiagLists : SuggestFixes(d)

SynthInit == InitWith(BoundedSeq(Alphabet, MaxSynthLen))

SynthSpec == SynthInit /\ [][SynthNext]_vars

\* the edit applier as a function of any buffer and any edit
ApplierNext == \E e \in EditInputs : ApplyEdit(e)

ApplierInit == InitWith(BoundedSeq(Alphabet, MaxBufLen))

ApplierSpec == ApplierInit /\ [][ApplierNext]_vars

TypeOK ==
    /\ pc \in {"idle", "compiled", "fixed", "suggested"}
    /\ lastFrom \in {"none", "caller", "compiled", "fixed", "app"}
    /\ Len(prevErrors) <= Len(prevCode) + 2
    /\ Len(fixes) <= 4

(***************************************************************************)
(* Vocabulary of the properties.                                           *)
(***************************************************************************)
Range(f) == {f[i] : i \in DOMAIN f}

\* the detector has answered for the current buffer
Analysed == pc \in {"compiled", "fixed"}

\* the last edit applied was synthesized from analyze(prevCode)
FixApplied == lastFrom \in {"compiled", "fixed"}

KindOfDiag(d) ==
    IF d.message = MsgInclude THEN "MissingInclude"
    ELSE IF d.message = MsgMissingSemi THEN "MissingSemicolon"
    ELSE IF d.message = MsgExtraSemi THEN "ExtraSemicolon"
    ELSE "UnmatchedBraces"

KindOfFix(f) ==
    IF f.description = DescInclude THEN "MissingInclude"
    ELSE IF f.description = DescMissingSemi THEN "MissingSemicolon"
    ELSE IF f.description = DescExtraSemi THEN "ExtraSemicolon"
    ELSE "UnmatchedBraces"

Kinds(errs) == {KindOfDiag(errs[i]) : i \in 1..Len(errs)}

Occurrences(errs, kind) ==
    Cardinality({i \in 1..Len(errs) : KindOfDiag(errs[i]) = kind})

Excess(c) == Count(c, "{") - Count(c, "}")

Abs(n) == IF n < 0 THEN -n ELSE n

\* number of places where two ";" are adjacent
PairCount(s) == Cardinality({i \in 1..(Len(s)-1) : s[i] = ";" /\ s[i+1] = ";"})

(***************************************************************************)
(* C1                                                                      *)
(***************************************************************************)
\* C1 (as stated): once the closing-brace Insert synthesized for a source
\* with more "{" than "}" has been applied, re-analysis never reports
\* Unmatched braces.
C1_NeverUnmatchedAgain ==
    (Analysed /\ FixApplied /\ lastEdit.description = DescAddBrace
        /\ Excess(prevCode) > 0)
    => DiagBraces \notin Range(errors)

\* C1 (amended): the Insert adds exactly one "}", so re-analysis is free of
\* Unmatched braces exactly when the source had one "{" more than "}"; with
\* two or more in excess the diagnostic is reported again.
C1_ClosesOneBrace ==
    (Analysed /\ FixApplied /\ lastEdit.description = DescAddBrace)
    => /\ Excess(prevCode) > 0
       /\ Excess(code) = Excess(prevCode) - 1
       /\ (DiagBraces \in Range(errors)) <=> (Excess(prevCode) >= 2)

C1_Witness ==
    /\ Analysed /\ FixApplied /\ lastEdit.description = DescAddBrace
    /\ Excess(prevCode) = 1
    /\ DiagBraces \in Range(prevErrors)
    /\ DiagBraces \notin Range(errors)

(***************************************************************************)
(* C2                                                                      *)
(***************************************************************************)
\* the text an edit carries
EditText(e) ==
    IF e.type = "replace" /\ e.replacement # Undefined THEN e.replacement
    ELSE ContentOrEmpty(e)

\* C2 (as stated): applying any edit changes the number of lines of the
\* buffer by at most the number of newlines in the text the edit carries.
C2_LineCountBound ==
    (pc = "idle" /\ lastFrom = "caller")
    => Abs(Len(Split(code)) - Len(Split(prevCode)))
          <= Count(EditText(lastEdit.edit), "\n")

(***************************************************************************)
(* C3                                                                      *)
(***************************************************************************)
\* C3 (as stated): a replace edit overwrites exactly the line at index
\* line-1 clamped into [0, length-1]; the other lines and the line count are
\* unchanged.
C3_ReplaceOverwritesOneLine ==
    (pc = "idle" /\ lastFrom = "caller" /\ lastEdit.edit.type = "replace")
    => LET old == Split(prevCode)
           new == Split(code)
           idx == Max(0, Min(Len(old) - 1, lastEdit.edit.line - 1))
       IN /\ Len(new) = Len(old)
          /\ new[idx + 1] = EditText(lastEdit.edit)
          /\ \A k \in 1..Len(old) : k # idx + 1 => new[k] = old[k]

(***************************************************************************)
(* C4                                                                      *)
(***************************************************************************)
\* C4 (as stated): suggest_fixes returns at most one edit per kind of
\* diagnostic in its input and no edit for a kind that is not in its input.
C4_OneEditPerKindPresent ==
    pc = "suggested"
    => /\ \A i \in 1..Len(fixes) : KindOfFix(fixes[i]) \in Kinds(errors)
       /\ \A i, j \in 1..Len(fixes) :
             KindOfFix(fixes[i]) = KindOfFix(fixes[j]) => i = j
       /\ Len(fixes) <= Cardinality(Kinds(errors))

(***************************************************************************)
(* C5                                                                      *)
(***************************************************************************)
\* lines that hold a printf call and end without ";"
OffendingLines(c) ==
    {i \in 1..Len(Split(c)) : LinePrintfNoSemi(Split(c)[i])}

\* C5 (as stated): when some line holds a printf call that ends the line
\* without ";", analyze reports Missing semicolon once, with the number of
\* the first such line; when no line does, it does not report it.
C5_MissingSemicolonAtFirstLine ==
    Analysed
    => IF OffendingLines(code) # {}
       THEN /\ Occurrences(errors, "MissingSemicolon") = 1
            /\ \A i \in 1..Len(errors) :
                  KindOfDiag(errors[i]) = "MissingSemicolon"
                  => errors[i].line = SetMin(OffendingLines(code))
       ELSE Occurrences(errors, "MissingSemicolon") = 0

(***************************************************************************)
(* C6                                                                      *)
(***************************************************************************)
\* C6 (as stated, its safety part): the loop never reaches a buffer for
\* which the detector reports diagnostics and the synthesizer offers no edit.
C6_NeverStuck ==
    (Analysed /\ Len(errors) > 0) => Len(fixes) > 0

(***************************************************************************)
(* C7                                                                      *)
(***************************************************************************)
\* C7 (as stated): after the Replace synthesized for Extra semicolon at line
\* L has been applied, re-analysis does not report Extra semicolon at L.
C7_NotAgainAtLine ==
    (Analysed /\ FixApplied /\ lastEdit.description = DescExtraSemi
        /\ DiagExtraSemi(lastEdit.edit.line) \in Range(prevErrors))
    => DiagExtraSemi(lastEdit.edit.line) \notin Range(errors)

\* C7 (amended): the Replace removes one ";" of the first pair, so
\* re-analysis is free of Extra semicolon at L exactly when line L held a
\* single ";;" pair; with a second pair on the line (";;;" counts as two)
\* the diagnostic is reported at L again.
C7_NotAgainWhenSinglePair ==
    (Analysed /\ FixApplied /\ lastEdit.description = DescExtraSemi)
    => LET L == lastEdit.edit.line
       IN /\ DiagExtraSemi(L) \in Range(prevErrors)
          /\ lastEdit.edit.original = Split(prevCode)[L]
          /\ (DiagExtraSemi(L) \in Range(errors))
                <=> (PairCount(Split(prevCode)[L]) >= 2)

C7_Witness ==
    /\ Analysed /\ FixApplied /\ lastEdit.description = DescExtraSemi
    /\ PairCount(lastEdit.edit.original) = 1
    /\ DiagExtraSemi(lastEdit.edit.line) \in Range(prevErrors)
    /\ DiagExtraSemi(lastEdit.edit.line) \notin Range(errors)

(***************************************************************************)
(* C8                                                                      *)
(***************************************************************************)
\* C8 (as stated): on Scenario B analyze returns Unmatched braces alone and
\* suggest_fixes returns one edit, Insert at line 3 of "\n}".
C8_ScenarioB_AsStated ==
    (pc = "compiled" /\ code = ScenarioB)
    => /\ errors = <<DiagBraces>>
       /\ Len(fixes) = 1
       /\ fixes[1].edit = InsertEdit(3, <<"\n", "}">>)

\* C8 (amended): on Scenario B analyze returns two diagnostics, the missing
\* include then Unmatched braces, and suggest_fixes returns two edits:
\* Insert at line 1 of the include directive + newline, then Insert at line
\* 4 of "\n}" (the text splits into three lines, the last one empty).
C8_ScenarioB ==
    (pc = "compiled" /\ code = ScenarioB)
    => /\ errors = <<DiagInclude, DiagBraces>>
       /\ Len(Split(code)) = 3
       /\ Len(fixes) = 2
       /\ fixes[1].edit = InsertEdit(1, <<INCLUDE, "\n">>)
       /\ fixes[2].edit = InsertEdit(4, <<"\n", "}">>)

C8_Witness ==
    /\ pc = "compiled" /\ code = ScenarioB /\ lastFrom = "none"
    /\ Len(errors) = 2 /\ Len(fixes) = 2

(***************************************************************************)
(* C9                                                                      *)
(***************************************************************************)
\* C9: every edit of suggest_fixes(source, analyze(source)) names a line of
\* the source: an Insert a line in 1..length+1, a Replace a line in
\* 1..length whose text is the edit's `original`.
C9_EditsInsideSource ==
    Analysed
    => \A i \in 1..Len(fixes) :
          LET e == fixes[i].edit
              lines == Split(code)
          IN /\ e.type \in {"insert", "replace"}
             /\ e.type = "insert" => e.line \in 1..(Len(lines) + 1)
             /\ e.type = "replace" =>
                   e.line \in 1..Len(lines) /\ e.original = lines[e.line]

C9_Witness ==
    /\ Analysed
    /\ \E i \in 1..Len(fixes) :
          fixes[i].edit.type = "insert"
          /\ fixes[i].edit.line = Len(Split(code)) + 1
    /\ \E i \in 1..Len(fixes) :
          fixes[i].edit.type = "replace" /\ fixes[i].edit.line > 1

(***************************************************************************)
(* C10                                                                     *)
(***************************************************************************)
\* C10: analyze reports Unmatched braces never when the counts of "{" and
\* "}" are equal and exactly once, without a line, when they differ,
\* whatever else it reports.
C10_BraceInvariant ==
    Analysed
    => /\ Excess(code) = 0 => Occurrences(errors, "UnmatchedBraces") = 0
       /\ Excess(code) # 0 =>
             /\ Occurrences(errors, "UnmatchedBraces") = 1
             /\ \A i \in 1..Len(errors) :
                   KindOfDiag(errors[i]) = "UnmatchedBraces"
                   => errors[i].line = NoLine

C10_Witness ==
    /\ pc = "fixed"
    /\ Excess(code) < 0
    /\ Occurrences(errors, "UnmatchedBraces") = 1
    /\ Occurrences(errors, "ExtraSemicolon") = 1

(***************************************************************************)
(* C13                                                                     *)
(***************************************************************************)
\* index at which the specification splices an insert: line-1 clamped into
\* [0, length]
ClampedIndex(n, line) ==
    IF line - 1 < 0 THEN 0 ELSE IF line - 1 > n THEN n ELSE line - 1

\* the lines an insert must leave: the old lines with the pieces of the
\* content in one block at the clamped index
ExpectedInsert(old, e) ==
    LET idx == ClampedIndex(Len(old), e.line)
    IN SubSeq(old, 1, idx) \o Split(ContentOrEmpty(e)) \o SubSeq(old, idx + 1, Len(old))

\* C13: an insert with any line number (0, negative, beyond length+1)
\* yields a buffer: the pieces of the content sit in one block at index
\* clamp(line-1, 0, length), the old lines keep their text and order around
\* it; line 0 gives the same buffer as line 1, and every line above length+1
\* the same buffer as length+1.
\* The new buffer is the join of those lines; split again it gives those
\* lines back when the texts hold no carriage return.
C13_InsertClamped ==
    (pc = "idle" /\ lastFrom = "caller" /\ lastEdit.edit.type = "insert")
    => LET old == Split(prevCode)
           e == lastEdit.edit
       IN /\ code = Join(ExpectedInsert(old, e))
          /\ e.line <= 1 => code = applyEdit(prevCode, [e EXCEPT !.line = 1])
          /\ e.line > Len(old) + 1 =>
                code = applyEdit(prevCode, [e EXCEPT !.line = Len(old) + 1])
          /\ (Count(prevCode, "\r") = 0 /\ Count(ContentOrEmpty(e), "\r") = 0)
                => Split(code) = ExpectedInsert(old, e)

C13_Witness ==
    /\ pc = "idle" /\ lastFrom = "caller" /\ lastEdit.edit.type = "insert"
    /\ lastEdit.edit.line > Len(Split(prevCode)) + 1
    /\ Len(Split(prevCode)) >= 2
    /\ lastEdit.edit.content = <<"\n", "}">>
    /\ Len(Split(code)) = Len(Split(prevCode)) + 2

(***************************************************************************)
(* C14                                                                     *)
(***************************************************************************)
\* C14 (as stated): whenever analyze reports Missing semicolon for a source,
\* suggest_fixes on that source and those diagnostics returns the Replace
\* that appends ";"; the branch that finds no line is not taken.
C14_DetectorAndSynthesizerAgree ==
    (Analysed /\ DiagMissingSemi \in Range(errors))
    => \E i \in 1..Len(fixes) :
          /\ fixes[i].description = DescMissingSemi
          /\ fixes[i].edit.type = "replace"

(***************************************************************************)
(* C11                                                                     *)
(***************************************************************************)
\* C11: the /compile response has status "success" exactly when its errors
\* list is empty and "error" otherwise; its fixes are empty when the errors
\* are, and are the synthesizer's output for the code and the errors when
\* they are not (also when that output is empty).
C11_StatusFollowsDiagnostics ==
    pc = "compiled"
    => /\ status \in {"success", "error"}
       /\ (status = "success") <=> (Len(errors) = 0)
       /\ Len(errors) = 0 => fixes = <<>>
       /\ Len(errors) > 0 => fixes = generateFixes(code, errors)

C11_Witness ==
    /\ pc = "compiled"
    /\ status = "error"
    /\ Len(errors) > 0
    /\ fixes = <<>>

(***************************************************************************)
(* C12                                                                     *)
(***************************************************************************)
\* C12: for every text the edits of /fix are those of /compile, in content
\* and order: what either handler answered is what the other one computes
\* for the same text.
C12_FixEditsEqualCompileEdits ==
    /\ pc = "fixed" => fixes = compileFixes(code, compileErrors(code))
    /\ pc = "compiled" => fixes = generateFixes(code, fixErrors(code))

C12_Witness ==
    /\ pc = "fixed"
    /\ Len(fixes) >= 2
    /\ Len(compileErrors(code)) >= 2

(***************************************************************************)
(* The App component with the backend behind fetch.                        *)
(* handleCompile is an async function: it runs up to its first await, the  *)
(* answer of /compile resumes it, and, when there are errors, the answer   *)
(* of /fix resumes it again.  The code it posts is the one its closure     *)
(* captured when the button was clicked.  The textarea stays editable      *)
(* throughout.                                                             *)
(***************************************************************************)
\* the texts the user types into the editor
EditorTexts ==
    { <<PRINTF, "(", ")">>, <<";", ";", "\n", "{">> }

\* the ways a fetch ends: response.ok, a response that is not ok, a rejection
Outcomes == {"ok", "notok", "rejected"}

ErrNoBackend == "Backend URL not configured. Set VITE_BACKEND_URL in a .env file."
ErrHttp == "HTTP error! status"
ErrRejected == "Failed to connect to compiler backend"

\* the JSON body of the /compile response for a posted code
compileData(c) ==
    LET errs == compileErrors(c)
    IN [isNull |-> FALSE, status |-> compileStatus(errs),
        errors |-> errs, fixes |-> compileFixes(c, errs)]

\* fixData.fixes of the /fix response for a posted code
fixData(c) == generateFixes(c, fixErrors(c))

\* a request of handleCompile in flight: the code its closure captured and
\* the bodies the backend answers for that code on /compile and on /fix
Posted(c) ==
    [stage |-> "compile", code |-> c, data |-> compileData(c), fixes |-> fixData(c)]

RemoveAt(q, k) == SubSeq(q, 1, k - 1) \o SubSeq(q, k + 1, Len(q))

AppInit ==
    /\ code = defaultCode
    /\ errors = <<>>
    /\ fixes = <<>>
    /\ pc = "idle"
    /\ prevCode = code
    /\ prevErrors = <<>>
    /\ lastEdit = NoFix
    /\ lastFrom = "none"
    /\ status = "none"
    /\ result = NullResult
    /\ uiFixes = NullFixes
    /\ isCompiling = FALSE
    /\ error = "null"
    /\ isResetting = FALSE
    /\ backendUrl \in BOOLEAN
    /\ calls = <<>>
    /\ fixesFor = <<>>

coreVars == <<errors, fixes, pc, prevErrors, status>>

\* variant: the compile button is not disabled while compiling
HandleCompile_NotDisabled ==
    /\ Len(calls) < MaxCalls
    /\ IF ~backendUrl
       THEN /\ error' = ErrNoBackend
            /\ UNCHANGED <<isCompiling, calls>>
       ELSE /\ error' = "null"
            /\ isCompiling' = TRUE
            /\ calls' = Append(calls, Posted(code))
    /\ UNCHANGED <<code, prevCode, lastEdit, lastFrom, result, uiFixes,
                   isResetting, backendUrl, fixesFor, coreVars>>

\* a click on the compile button: handleCompile up to its first await
HandleCompile ==
    /\ ~isCompiling
    /\ Len(calls) < MaxCalls
    /\ IF ~backendUrl
       THEN /\ error' = ErrNoBackend
            /\ UNCHANGED <<isCompiling, calls>>
       ELSE /\ error' = "null"
            /\ isCompiling' = TRUE
            /\ calls' = Append(calls, Posted(code))
    /\ UNCHANGED <<code, prevCode, lastEdit, lastFrom, result, uiFixes,
                   isResetting, backendUrl, fixesFor, coreVars>>

\* the fetch of /compile ends and handleCompile resumes
CompileResponse(k, o) ==
    /\ k \in 1..Len(calls)
    /\ calls[k].stage = "compile"
    /\ IF o = "ok"
       THEN LET data == calls[k].data
            IN /\ result' = data
               /\ IF Len(data.errors) > 0
                  THEN /\ calls' = [calls EXCEPT ![k].stage = "fix"]
                       /\ UNCHANGED <<uiFixes, isCompiling>>
                  ELSE /\ uiFixes' = NullFixes
                       /\ isCompiling' = FALSE
                       /\ calls' = RemoveAt(calls, k)
               /\ UNCHANGED error
       ELSE /\ error' = (IF o = "notok" THEN ErrHttp ELSE ErrRejected)
            /\ result' = NullResult
            /\ isCompiling' = FALSE
            /\ calls' = RemoveAt(calls, k)
            /\ UNCHANGED uiFixes
    /\ UNCHANGED <<code, prevCode, lastEdit, lastFrom, isResetting,
                   backendUrl, fixesFor, coreVars>>

\* the fetch of /fix ends and handleCompile runs to its end
FixResponse(k, o) ==
    /\ k \in 1..Len(calls)
    /\ calls[k].stage = "fix"
    /\ IF o = "ok"
       THEN /\ uiFixes' = [isNull |-> FALSE, list |-> calls[k].fixes]
            /\ fixesFor' = calls[k].code
       ELSE /\ uiFixes' = NullFixes
            /\ UNCHANGED fixesFor
    /\ isCompiling' = FALSE
    /\ calls' = RemoveAt(calls, k)
    /\ UNCHANGED <<code, prevCode, lastEdit, lastFrom, result, error,
                   isResetting, backendUrl, coreVars>>

\* a click on the reset button
HandleReset ==
    /\ ~isCompiling /\ ~isResetting
    /\ isResetting' = TRUE
    /\ code' = defaultCode
    /\ result' = NullResult
    /\ error' = "null"
    /\ UNCHANGED <<prevCode, lastEdit, lastFrom, uiFixes, isCompiling,
                   backendUrl, calls, fixesFor, coreVars>>

\* the 300 ms timer of handleReset
ResetTimer ==
    /\ isResetting
    /\ isResetting' = FALSE
    /\ UNCHANGED <<code, prevCode, lastEdit, lastFrom, result, uiFixes,
                   isCompiling, error, backendUrl, calls, fixesFor, coreVars>>

\* onChange of the textarea
TextEdit(t) ==
    /\ t # code
    /\ code' = t
    /\ UNCHANGED <<prevCode, lastEdit, lastFrom, appVars, coreVars>>

\* the output panel shows neither result nor fixes while compiling, with an
\* error, or without a result
FixesShown ==
    /\ ~isCompiling
    /\ error = "null"
    /\ ~result.isNull
    /\ ~uiFixes.isNull

\* a click on a fix of the output panel: applyFix(fixes[i])
AppApplyFix(i) ==
    /\ FixesShown
    /\ i \in 1..Len(uiFixes.list)
    /\ code' = applyEdit(code, uiFixes.list[i].edit)
    /\ uiFixes' = NullFixes
    /\ result' = NullResult
    /\ prevCode' = code
    /\ lastEdit' = uiFixes.list[i]
    /\ lastFrom' = "app"
    /\ UNCHANGED <<isCompiling, error, isResetting, backendUrl, calls,
                   fixesFor, coreVars>>

AppNext ==
    \/ HandleCompile
    \/ \E k \in 1..MaxCalls, o \in Outcomes : CompileResponse(k, o)
    \/ \E k \in 1..MaxCalls, o \in Outcomes : FixResponse(k, o)
    \/ HandleReset
    \/ ResetTimer
    \/ \E t \in EditorTexts : TextEdit(t)
    \/ \E i \in 1..4 : AppApplyFix(i)

AppSpec == AppInit /\ [][AppNext]_vars

\* every fetch ends: it resolves or rejects
AppFairSpec ==
    /\ AppInit /\ [][AppNext]_vars
    /\ WF_vars(\E k \in 1..MaxCalls, o \in Outcomes : CompileResponse(k, o))
    /\ WF_vars(\E k \in 1..MaxCalls, o \in Outcomes : FixResponse(k, o))

AppTypeOK ==
    /\ isCompiling \in BOOLEAN /\ isResetting \in BOOLEAN
    /\ error \in {"null", ErrNoBackend, ErrHttp, ErrRejected}
    /\ Len(calls) <= MaxCalls

(***************************************************************************)
(* C15: whenever the App holds fixes it also holds the compile result      *)
(* they were fetched for: fixes non-null implies result non-null with a    *)
(* non-empty errors list.                                                  *)
(***************************************************************************)
C15_FixesImplyResult ==
    ~uiFixes.isNull => (~result.isNull /\ Len(result.errors) > 0)

\* the fixes the App holds were computed from the code it holds now
FixesCurrent == ~uiFixes.isNull => fixesFor = code

\* the Replace edit applyFix applied last overwrote a line whose text was
\* the edit's original field
ReplaceOverwroteOriginal ==
    (lastFrom = "app" /\ lastEdit.edit.type = "replace")
    => LET old == Split(prevCode)
           lineIndex == lineIndexOf(old, lastEdit.edit)
       IN /\ lineIndex + 1 \in 1..Len(old)
          /\ old[lineIndex + 1] = lastEdit.edit.original

(***************************************************************************)
(* C16: no stale fix can be applied.  Under every interleaving of text     *)
(* edits, an in-flight request and its response callbacks, fixes that are  *)
(* non-null were computed from the current code, so a Replace edit applied *)
(* by applyFix overwrites a line whose text equals the edit's original.    *)
(***************************************************************************)
C16_NoStaleFix == FixesCurrent /\ ReplaceOverwroteOriginal

(***************************************************************************)
(* C17: every invocation of handleCompile eventually sets isCompiling      *)
(* back to false on every path, as long as each fetch resolves or rejects; *)
(* and at most one compile is in flight at any time, isCompiling being     *)
(* true exactly while one is.                                              *)
(***************************************************************************)
C17_CompileEnds ==
    /\ [](Len(calls) <= 1)
    /\ [](isCompiling <=> calls # <<>>)
    /\ isCompiling ~> ~isCompiling
    /\ \A st \in {"compile", "fix"} :
          (calls # <<>> /\ calls[1].stage = st) ~> (calls = <<>> /\ ~isCompiling)

\* a compile whose /fix fetch failed has ended: the result with its errors
\* is shown, no fixes, and nothing is in flight
C17_Witness ==
    /\ ~isCompiling
    /\ calls = <<>>
    /\ ~result.isNull
    /\ Len(result.errors) > 0
    /\ uiFixes.isNull
    /\ error = "null"

====
